---------------------------- MODULE Spec2Model ----------------------------
(***************************************************************************)
(* A model of find_companies.py: process_companies (the loop driver),      *)
(* analyze_company (model call + extraction cascade) and                   *)
(* extract_json_from_text (fence detection).                               *)
(*                                                                         *)
(* Text is a sequence of one-character strings.  The library calls the     *)
(* code makes on text (str.strip, str.startswith, re.search, re.sub,       *)
(* json.loads, slicing) are operators that compute what CPython computes   *)
(* on the alphabet used here: the backtick, the letters j s o n a x, the    *)
(* digit 5, the braces, the double quote, the colon and the newline.       *)
(* The alphabet has no backslash, comma, bracket, sign, dot or the letters *)
(* of true/false/null/NaN, so the branches of the JSON scanner for those   *)
(* can not be entered by any text of the model.                            *)
(***************************************************************************)
EXTENDS Integers, Sequences, FiniteSets, TLC

(***************************************************************************)
(* Bounds of the model.                                                    *)
(***************************************************************************)
\* longest core of a short reply, in pieces
MaxParts == 4
\* rows of the input table
MaxRows == 3

(***************************************************************************)
(* Program constants.                                                      *)
(***************************************************************************)
\* raw_response[:500]
RAW_RESPONSE_LIMIT == 500

(***************************************************************************)
(* Characters and the text pieces replies are made of.                     *)
(***************************************************************************)
\* the backtick (SANY can not lex a backtick inside a string literal)
BT == "BACKTICK"
QT == "\""
NL == "\n"

FENCE == <<BT, BT, BT>>
JSON_FENCE == <<BT, BT, BT, "j", "s", "o", "n">>
OBJ_OPEN == <<"{", QT, "a", QT, ":", QT>>
OBJ_CLOSE == <<QT, "}">>

\* what str.strip() and the pattern \s remove, on this alphabet
Whitespace == {" ", NL, "\t", "\r"}
\* what json skips between tokens
JsonWhitespace == {" ", NL, "\t", "\r"}
\* characters json rejects inside a string (strict mode): below 0x20
ControlChars == {NL, "\t", "\r"}
Digits == {"0", "1", "2", "3", "4", "5", "6", "7", "8", "9"}

Min(a, b) == IF a < b THEN a ELSE b

\* s[i:i+1] of Python, by 1-based index: "" past the end
CharAt(s, i) == IF i \in 1..Len(s) THEN s[i] ELSE ""

\* s[:n]
Take(s, n) == SubSeq(s, 1, Min(n, Len(s)))

\* s[i-1:] by 1-based index
Drop(s, i) == SubSeq(s, i, Len(s))

\* whether p occurs in s at index i
MatchAt(s, i, p) ==
    /\ i >= 1
    /\ i + Len(p) - 1 <= Len(s)
    /\ SubSeq(s, i, i + Len(p) - 1) = p

\* the first index >= i where p occurs in s, 0 when there is none
FindFrom(s, i, p) ==
    LET hits == {j \in i..(Len(s) - Len(p) + 1) : MatchAt(s, j, p)}
    IN  IF hits = {} THEN 0
        ELSE CHOOSE j \in hits : \A k \in hits : j <= k

\* the first index >= i of a character outside ws, Len(s)+1 when there is none
SkipOver(s, i, ws) ==
    IF \A j \in i..Len(s) : s[j] \in ws THEN Len(s) + 1
    ELSE CHOOSE j \in i..Len(s) :
            /\ s[j] \notin ws
            /\ \A k \in i..(j - 1) : s[k] \in ws

\* the last index of a character outside Whitespace, 0 when there is none
LastNonWs(s) ==
    IF \A j \in 1..Len(s) : s[j] \in Whitespace THEN 0
    ELSE CHOOSE j \in 1..Len(s) :
            /\ s[j] \notin Whitespace
            /\ \A k \in (j + 1)..Len(s) : s[k] \in Whitespace

\* str.strip()
Strip(s) == SubSeq(s, SkipOver(s, 1, Whitespace), LastNonWs(s))

\* str.startswith(p)
StartsWith(s, p) == MatchAt(s, 1, p)

(***************************************************************************)
(* json.loads on text.  A scan ends in                                     *)
(*   [ok |-> TRUE,  val |-> value, end |-> index after the value]  or      *)
(*   [ok |-> FALSE, msg |-> message, pos |-> 0-based position],            *)
(* the second being JSONDecodeError(msg, doc, pos).  A parsed value is     *)
(*   [t |-> "string", v |-> characters], [t |-> "number", v |-> digits] or *)
(*   [t |-> "object", v |-> sequence of <<key, value>>] (a Python dict).   *)
(***************************************************************************)
Scanned(val, end) == [ok |-> TRUE, val |-> val, end |-> end]
DecodeError(msg, i) == [ok |-> FALSE, msg |-> msg, pos |-> i - 1]

\* scanstring(s, end): i is the index after the opening quote
scanstring(s, i) ==
    LET stops == {j \in i..Len(s) : s[j] = QT \/ s[j] \in ControlChars}
        j == CHOOSE j \in stops : \A k \in stops : j <= k
    IN  IF stops = {} THEN DecodeError("Unterminated string starting at", i - 1)
        ELSE IF s[j] # QT THEN DecodeError("Invalid control character at", j)
        ELSE Scanned([t |-> "string", v |-> SubSeq(s, i, j - 1)], j + 1)

\* NUMBER_RE at index i: 0, or a nonzero digit and the digits after it
match_number(s, i) ==
    IF s[i] = "0" THEN Scanned([t |-> "number", v |-> <<"0">>], i + 1)
    ELSE LET e == SkipOver(s, i, Digits)
         IN  Scanned([t |-> "number", v |-> SubSeq(s, i, e - 1)], e)

RECURSIVE scan_once(_, _)

\* JSONObject: i is the index after the opening brace
JSONObject(s, i) ==
    LET k0 == SkipOver(s, i, JsonWhitespace)
    IN  IF CharAt(s, k0) = "}" THEN Scanned([t |-> "object", v |-> <<>>], k0 + 1)
        ELSE IF CharAt(s, k0) # QT
        THEN DecodeError("Expecting property name enclosed in double quotes", k0)
        ELSE
          LET key == scanstring(s, k0 + 1)
          IN  IF ~key.ok THEN key
              ELSE
                LET c == SkipOver(s, key.end, JsonWhitespace)
                IN  IF CharAt(s, c) # ":"
                    THEN DecodeError("Expecting ':' delimiter", c)
                    ELSE
                      LET v0 == SkipOver(s, c + 1, JsonWhitespace)
                          value == scan_once(s, v0)
                      IN  IF ~value.ok THEN value
                          ELSE
                            LET e == SkipOver(s, value.end, JsonWhitespace)
                            IN  IF CharAt(s, e) = "}"
                                THEN Scanned([t |-> "object",
                                              v |-> <<<<key.val.v, value.val>>>>],
                                             e + 1)
                                ELSE DecodeError("Expecting ',' delimiter", e)

\* scan_once(string, idx): StopIteration is the "Expecting value" error
scan_once(s, i) ==
    LET c == CharAt(s, i)
    IN  IF c = QT THEN scanstring(s, i + 1)
        ELSE IF c = "{" THEN JSONObject(s, i + 1)
        ELSE IF c \in Digits THEN match_number(s, i)
        ELSE DecodeError("Expecting value", i)

\* json.loads(s): JSONDecoder.decode
json_loads(s) ==
    LET r == scan_once(s, SkipOver(s, 1, JsonWhitespace))
    IN  IF ~r.ok THEN r
        ELSE LET e == SkipOver(s, r.end, JsonWhitespace)
             IN  IF e # Len(s) + 1 THEN DecodeError("Extra data", e)
                 ELSE r

\* str(e) of a JSONDecodeError: the message and where
ErrorText(r) == <<r.msg, r.pos>>

(***************************************************************************)
(* The regular expressions.                                                *)
(***************************************************************************)
\* re.search(r"```json\s*([\s\S]*?)\s*```", text).group(1); <<FALSE>> when no
\* match.  The capture is lazy: it ends at the first place from which only
\* whitespace separates it from a closing fence.
search_json_block(text) ==
    LET open == FindFrom(text, 1, JSON_FENCE)
        from == SkipOver(text, open + Len(JSON_FENCE), Whitespace)
        ends == {p \in from..(Len(text) + 1) :
                    MatchAt(text, SkipOver(text, p, Whitespace), FENCE)}
    IN  IF open = 0 \/ ends = {} THEN <<FALSE>>
        ELSE <<TRUE, SubSeq(text, from,
                     (CHOOSE p \in ends : \A q \in ends : p <= q) - 1)>>

\* sub_fenced with a greedy pattern: from the first fence to the last
sub_fenced_greedy(text) ==
    LET fences == {j \in 1..Len(text) : MatchAt(text, j, FENCE)}
        open == FindFrom(text, 1, FENCE)
        last == CHOOSE j \in fences : \A k \in fences : k <= j
    IN  IF open = 0 \/ last < open + Len(FENCE) THEN text
        ELSE SubSeq(text, 1, open - 1) \o Drop(text, last + Len(FENCE))

RECURSIVE sub_fenced(_)
\* re.sub(r"```.*?```", "", text, flags=re.DOTALL): every span from a fence
\* to the next fence after it is removed, left to right
sub_fenced(text) ==
    LET open == FindFrom(text, 1, FENCE)
        close == IF open = 0 THEN 0 ELSE FindFrom(text, open + Len(FENCE), FENCE)
    IN  IF open = 0 \/ close = 0 THEN text
        ELSE SubSeq(text, 1, open - 1) \o sub_fenced(Drop(text, close + Len(FENCE)))

(***************************************************************************)
(* extract_json_from_text                                                  *)
(***************************************************************************)
extract_json_from_text(text) ==
    IF StartsWith(Strip(text), JSON_FENCE)
    THEN LET match == search_json_block(text)
         IN  IF match[1] THEN Strip(match[2]) ELSE Strip(text)
    ELSE Strip(text)

(***************************************************************************)
(* The results analyze_company returns.  A Python dict literal is a        *)
(* function from its keys; a value parsed from the reply is the parsed     *)
(* value [t, v] itself, as json.loads returned it.                         *)
(***************************************************************************)
PARSE_ERROR_TEXT == "Error parsing response"

\* TerminalError keeping the first characters of the trimmed reply
TerminalError_trimmed(name, e, raw_response) ==
    ("company_name" :> name) @@
    ("has_website" :> FALSE) @@
    ("website_url" :> "") @@
    ("website_notes" :> PARSE_ERROR_TEXT) @@
    ("needs_website_remake" :> FALSE) @@
    ("business_type" :> "") @@
    ("social_media_links" :> <<>>) @@
    ("directory_listings" :> <<>>) @@
    ("recommended_services" :> <<>>) @@
    ("sales_script" :> PARSE_ERROR_TEXT) @@
    ("_error" :> e) @@
    ("_raw_response" :> Take(Strip(raw_response), RAW_RESPONSE_LIMIT))

\* the dict of lines 167-180
TerminalError(name, e, raw_response) ==
    ("company_name" :> name) @@
    ("has_website" :> FALSE) @@
    ("website_url" :> "") @@
    ("website_notes" :> PARSE_ERROR_TEXT) @@
    ("needs_website_remake" :> FALSE) @@
    ("business_type" :> "") @@
    ("social_media_links" :> <<>>) @@
    ("directory_listings" :> <<>>) @@
    ("recommended_services" :> <<>>) @@
    ("sales_script" :> PARSE_ERROR_TEXT) @@
    ("_error" :> e) @@
    ("_raw_response" :> Take(raw_response, RAW_RESPONSE_LIMIT))

\* ApiError with the fields of the parse-error dict filled in as well
ApiError_full(name, e) ==
    ("error" :> e) @@ TerminalError(name, e, <<>>)

\* the dict of lines 184-187
ApiError(name, e) == ("company_name" :> name) @@ ("error" :> e)

\* cleaner_content of lines 158-159
cleaner_content(raw_response) == Strip(sub_fenced(raw_response))

(***************************************************************************)
(* The input table, the Model Client's replies and the program state.      *)
(***************************************************************************)
\* required_cols without its last entry
required_cols_short == {"name", "phone_number", "city"}

\* line 32
required_cols == {"name", "phone_number", "city", "state"}

\* what str(e) of a failed client.messages.create can be
ApiFailures == {"connection error", "authentication error"}

X == <<"x">>
FIVE == <<"5">>
Pieces == {JSON_FENCE, FENCE, <<NL>>, OBJ_OPEN, OBJ_CLOSE, X, FIVE}

RECURSIVE Concats(_)
\* the concatenations of at most n pieces
Concats(n) ==
    IF n = 0 THEN {<<>>}
    ELSE LET shorter == Concats(n - 1)
         IN  shorter \cup {p \o t : p \in Pieces, t \in shorter}

\* prose of n characters
Pad(n) == [k \in 1..n |-> "x"]

\* short replies: a core, bare or inside a json fence, closed or not
ShortReplies ==
    {open \o core \o close :
        open \in {<<>>, JSON_FENCE}, core \in Concats(MaxParts),
        close \in {<<>>, FENCE}}

\* replies around the length raw_response is cut at
LongReplies ==
    {head \o Pad(RAW_RESPONSE_LIMIT - Len(head) - Len(tail) + d) \o tail :
        head \in {<<>>, FENCE}, tail \in {<<>>, FENCE, FIVE}, d \in {-1, 0, 1}}

Replies == ShortReplies \cup LongReplies

\* the replies of a whole run: an object, a fenced object, a number, prose,
\* a fenced object whose string holds a fence
RunReplies ==
    { OBJ_OPEN \o X \o OBJ_CLOSE,
      JSON_FENCE \o <<NL>> \o OBJ_OPEN \o OBJ_CLOSE \o <<NL>> \o FENCE,
      FIVE,
      X \o X,
      JSON_FENCE \o OBJ_OPEN \o FENCE \o OBJ_CLOSE \o FENCE }

\* row r of the input table, with the columns the table has
Row(cols, r) == [c \in cols |-> <<c, r>>]

VARIABLES
    columns,        \* df.columns
    nrows,          \* len(df)
    start_index,    \* the argument
    count,          \* the argument: <<>> is None, <<k>> is k
    prior,          \* the output file before the run
    outfile,        \* the output file: [exists, rows]
    outdir,         \* whether os.makedirs has run
    client,         \* whether the client has been constructed
    pc,             \* where process_companies / analyze_company is
    error,          \* the exception process_companies raised, if any
    companies,      \* the selected batch
    i,              \* the loop index
    results,        \* the accumulated results
    prompt,         \* the request being built: the fields it embeds
    raw_response,   \* the reply of the current call
    json_content,   \* the candidate text
    parse_error,    \* str(e) of the primary parse failure
    result,         \* what analyze_company returns
    calls,          \* the calls of the Model Client, in order: the request
                    \* sent and what came back
    log             \* the steps taken, in order: <<step, i>>

vars == <<columns, nrows, start_index, count, prior, outfile, outdir, client,
          pc, error, companies, i, results, prompt, raw_response,
          json_content, parse_error, result, calls, log>>

config == <<columns, nrows, start_index, count, prior>>
call_state == <<prompt, raw_response, json_content, parse_error, result>>

NoFile == [exists |-> FALSE, rows |-> <<>>]
StaleFile == [exists |-> TRUE, rows |-> <<"old row">>]

df == [r \in 1..nrows |-> Row(columns, r)]

\* df.iloc[start:end] for start, end >= 0
iloc(table, start, end) == SubSeq(table, start + 1, Min(end, Len(table)))

NoText == <<>>
NoResult == [none |-> TRUE]

(***************************************************************************)
(* process_companies                                                       *)
(***************************************************************************)
\* the columns an input table may have
InputColumns == {"name", "phone_number", "city", "state"}

Init ==
    /\ columns \in SUBSET InputColumns
    /\ nrows \in 0..MaxRows
    /\ start_index \in 0..MaxRows
    /\ count \in {<<>>} \cup {<<k>> : k \in 0..MaxRows}
    /\ prior \in {NoFile, StaleFile}
    /\ outfile = prior
    /\ outdir = FALSE
    /\ client = FALSE
    /\ pc = "start"
    /\ error = "none"
    /\ companies = <<>>
    /\ i = 0
    /\ results = <<>>
    /\ prompt = <<>>
    /\ raw_response = NoText
    /\ json_content = NoText
    /\ parse_error = <<>>
    /\ result = NoResult
    /\ calls = <<>>
    /\ log = <<>>

\* lines 33: the required columns the table lacks
missing_cols(cols) == {col \in required_cols : col \notin cols}

\* lines 26-35: construct the client, read the table, check the columns
ReadAndValidate ==
    /\ pc = "start"
    /\ client' = TRUE
    /\ IF missing_cols(columns) # {}
       THEN /\ pc' = "raised"
            /\ error' = "ValueError: Missing required columns"
       ELSE /\ pc' = "select"
            /\ error' = error
    /\ UNCHANGED <<config, outfile, outdir, companies, i, results, call_state,
                   calls, log>>

\* lines 38-46: select the batch, make the output directory, start the loop
SelectBatch ==
    /\ pc = "select"
    /\ LET start == start_index
           end == IF count = <<>> THEN Len(df) ELSE start_index + count[1]
       IN  /\ companies' = iloc(df, start, end)
           /\ pc' = IF iloc(df, start, end) = <<>> THEN "finish" ELSE "analyze"
    /\ outdir' = TRUE
    /\ results' = <<>>
    /\ i' = 0
    /\ UNCHANGED <<config, outfile, client, error, call_state, calls, log>>

(***************************************************************************)
(* analyze_company, step by step                                           *)
(***************************************************************************)
\* lines 88-125: the prompt embeds the four fields of the record
BuildPrompt ==
    /\ pc = "analyze"
    /\ LET company == companies[i + 1]
       IN  prompt' = [name |-> company["name"],
                      phone |-> company["phone_number"],
                      city |-> company["city"],
                      state |-> company["state"]]
    /\ pc' = "call"
    /\ log' = Append(log, <<"build", i>>)
    /\ raw_response' = NoText
    /\ json_content' = NoText
    /\ parse_error' = <<>>
    /\ result' = NoResult
    /\ UNCHANGED <<config, outfile, outdir, client, error, companies, i,
                   results, calls>>

\* lines 127-140 and 182-187: one call; it returns a reply or raises
CallModel(replies) ==
    /\ pc = "call"
    /\ log' = Append(log, <<"call", i>>)
    /\ \/ \E reply \in replies :
            /\ calls' = Append(calls, [request |-> prompt,
                                       outcome |-> <<"reply", reply>>])
            /\ raw_response' = reply
            /\ pc' = "extract"
            /\ result' = result
       \/ \E e \in ApiFailures :
            /\ calls' = Append(calls, [request |-> prompt,
                                       outcome |-> <<"error", e>>])
            /\ result' = ApiError(prompt.name, e)
            /\ pc' = "return"
            /\ raw_response' = raw_response
    /\ UNCHANGED <<config, outfile, outdir, client, error, companies, i,
                   results, prompt, json_content, parse_error>>

\* line 143
ExtractJson ==
    /\ pc = "extract"
    /\ json_content' = extract_json_from_text(raw_response)
    /\ pc' = "parse"
    /\ log' = Append(log, <<"extract", i>>)
    /\ UNCHANGED <<config, outfile, outdir, client, error, companies, i,
                   results, prompt, raw_response, parse_error, result, calls>>

\* lines 145-153: the primary parse
PrimaryParse ==
    /\ pc = "parse"
    /\ LET r == json_loads(json_content)
       IN  IF r.ok
           THEN /\ result' = r.val
                /\ pc' = "return"
                /\ parse_error' = parse_error
           ELSE /\ parse_error' = ErrorText(r)
                /\ pc' = "clean"
                /\ result' = result
    /\ UNCHANGED <<config, outfile, outdir, client, error, companies, i,
                   results, prompt, raw_response, json_content, calls, log>>

\* after both parses failed the model is asked again
AfterAllParsingFailed_retry == "call"

\* lines 163-180: after both parses failed the error dict is returned
AfterAllParsingFailed == "return"

\* lines 156-180: the aggressive cleaning, then the error dict
AggressiveClean ==
    /\ pc = "clean"
    /\ LET r == json_loads(cleaner_content(raw_response))
       IN  IF r.ok
           THEN /\ result' = r.val
                /\ pc' = "return"
           ELSE /\ result' = TerminalError(prompt.name, parse_error,
                                           raw_response)
                /\ pc' = AfterAllParsingFailed
    /\ UNCHANGED <<config, outfile, outdir, client, error, companies, i,
                   results, prompt, raw_response, json_content, parse_error,
                   calls, log>>

(***************************************************************************)
(* the rest of the loop body                                               *)
(***************************************************************************)
\* the result put in front
appended_front(rs, r) == <<r>> \o rs

\* line 50
appended(rs, r) == Append(rs, r)

AppendResult ==
    /\ pc = "return"
    /\ results' = appended(results, result)
    /\ pc' = "save"
    /\ log' = Append(log, <<"append", i>>)
    /\ UNCHANGED <<config, outfile, outdir, client, error, companies, i,
                   call_state, calls>>

\* line 54: to_csv opens the path for writing, which empties the file
OpenOutput ==
    /\ pc = "save"
    /\ outfile' = [exists |-> TRUE, rows |-> <<>>]
    /\ pc' = "write"
    /\ UNCHANGED <<config, outdir, client, error, companies, i, results,
                   call_state, calls, log>>

\* lines 53-54: every accumulated result is written, and the file closed
WriteOutput ==
    /\ pc = "write"
    /\ outfile' = [exists |-> TRUE, rows |-> results]
    /\ pc' = "delay"
    /\ log' = Append(log, <<"persist", i>>)
    /\ UNCHANGED <<config, outdir, client, error, companies, i, results,
                   call_state, calls>>

\* the delay after every item, the last too
should_delay_always(idx, n) == idx < n

\* line 57
should_delay(idx, n) == idx < n - 1

\* lines 57-58 and the loop header, line 47
DelayOrExit ==
    /\ pc = "delay"
    /\ log' = IF should_delay(i, Len(companies))
              THEN Append(log, <<"pause", i>>)
              ELSE log
    /\ IF i + 1 < Len(companies)
       THEN /\ i' = i + 1
            /\ pc' = "analyze"
       ELSE /\ i' = i
            /\ pc' = "finish"
    /\ UNCHANGED <<config, outfile, outdir, client, error, companies, results,
                   call_state, calls>>

\* lines 60-61
Finish ==
    /\ pc = "finish"
    /\ pc' = "done"
    /\ UNCHANGED <<config, outfile, outdir, client, error, companies, i,
                   results, call_state, calls, log>>

\* the process is killed from outside, at any point of the run
Kill ==
    /\ pc \notin {"done", "raised", "killed"}
    /\ pc' = "killed"
    /\ UNCHANGED <<config, outfile, outdir, client, error, companies, i,
                   results, call_state, calls, log>>

Next ==
    \/ ReadAndValidate
    \/ SelectBatch
    \/ BuildPrompt
    \/ CallModel(RunReplies)
    \/ ExtractJson
    \/ PrimaryParse
    \/ AggressiveClean
    \/ AppendResult
    \/ OpenOutput
    \/ WriteOutput
    \/ DelayOrExit
    \/ Finish
    \/ Kill

Spec == Init /\ [][Next]_vars

(***************************************************************************)
(* analyze_company alone, on one record and every reply of Replies         *)
(***************************************************************************)
InitAnalyze ==
    /\ columns = InputColumns
    /\ nrows = 1
    /\ start_index = 0
    /\ count = <<>>
    /\ prior = NoFile
    /\ outfile = NoFile
    /\ outdir = TRUE
    /\ client = TRUE
    /\ pc = "analyze"
    /\ error = "none"
    /\ companies = df
    /\ i = 0
    /\ results = <<>>
    /\ prompt = <<>>
    /\ raw_response = NoText
    /\ json_content = NoText
    /\ parse_error = <<>>
    /\ result = NoResult
    /\ calls = <<>>
    /\ log = <<>>

NextAnalyze ==
    \/ BuildPrompt
    \/ CallModel(Replies)
    \/ ExtractJson
    \/ PrimaryParse
    \/ AggressiveClean

SpecAnalyze == InitAnalyze /\ [][NextAnalyze]_vars

(***************************************************************************)
(* Properties.  They are stated on their own terms: what the run selected  *)
(* is read off the arguments, what a reply leaves after its fenced spans   *)
(* are taken out is computed over indexes.                                 *)
(***************************************************************************)
\* the 1-based rows of the table the arguments select
Selected ==
    {r \in 1..nrows :
        /\ r > start_index
        /\ count = <<>> \/ r <= start_index + count[1]}

\* the name of row r of a table that has every required column
NameOfRow(r) == Row(InputColumns, r)["name"]

IsReply(call) == call.outcome[1] = "reply"
IsFailure(call) == call.outcome[1] = "error"

MinimalKeys == {"company_name", "error"}
TerminalKeys ==
    {"company_name", "has_website", "website_url", "website_notes",
     "needs_website_remake", "business_type", "social_media_links",
     "directory_listings", "recommended_services", "sales_script",
     "_error", "_raw_response"}

IsMinimalError(r) == DOMAIN r = MinimalKeys
IsTerminalError(r) == DOMAIN r = TerminalKeys
IsParsed(r) == DOMAIN r = {"t", "v"}
IsParsedObject(r) == IsParsed(r) /\ r["t"] = "object"

RECURSIVE KeptFrom(_, _)
\* text from index `from` on, without its fence-to-next-fence spans
KeptFrom(text, from) ==
    LET open == FindFrom(text, from, FENCE)
        close == IF open = 0 THEN 0 ELSE FindFrom(text, open + 3, FENCE)
    IN  IF open = 0 \/ close = 0 THEN SubSeq(text, from, Len(text))
        ELSE SubSeq(text, from, open - 1) \o KeptFrom(text, close + 3)

\* what is left of a reply after every fenced span is removed, trimmed
Remainder(reply) == Strip(KeptFrom(reply, 1))

HasFencedSpan(text) ==
    \E o \in 1..Len(text) :
        MatchAt(text, o, FENCE) /\ FindFrom(text, o + 3, FENCE) # 0

\* the call of the analysis that has just returned
LastCall == calls[Len(calls)]
Returned == pc = "return" /\ Len(calls) > 0

\* whether a result is one that analyze_company can have made of a call
ProducedFrom(res, call) ==
    IF IsFailure(call)
    THEN /\ IsMinimalError(res)
         /\ res["company_name"] = call.request.name
         /\ res["error"] = call.outcome[2]
    ELSE LET reply == call.outcome[2]
             first == json_loads(extract_json_from_text(reply))
             second == json_loads(Remainder(reply))
         IN  \/ IsParsed(res) /\ first.ok /\ res = first.val
             \/ IsParsed(res) /\ ~first.ok /\ second.ok /\ res = second.val
             \/ /\ IsTerminalError(res) /\ ~first.ok /\ ~second.ok
                /\ res["company_name"] = call.request.name

\* C1: when process_companies ends, the results are one per selected
\* record and the k-th result was produced from the k-th selected record
\* (its request names that record and the result is what the analysis makes
\* of that call's reply or failure).
C1_OneResultPerRecordInOrder ==
    pc = "done" =>
        /\ Len(results) = Cardinality(Selected)
        /\ Len(calls) = Len(results)
        /\ \A k \in 1..Len(results) :
              /\ start_index + k \in Selected
              /\ calls[k].request.name = NameOfRow(start_index + k)
              /\ ProducedFrom(results[k], calls[k])

\* a finished run over a batch that starts after the first row, with a count,
\* whose first call failed and whose second was answered
C1_Witness ==
    /\ pc = "done"
    /\ start_index = 1
    /\ count = <<2>>
    /\ Len(results) = 2
    /\ IsFailure(calls[1])
    /\ IsReply(calls[2])
    /\ IsParsedObject(results[2])

\* C2: whatever the reply, what analyze_company returns for it is a
\* mapping parsed from the reply or one of the two error dicts.
C2_AlwaysWellFormedResult ==
    Returned =>
        \/ IsParsedObject(result)
        \/ IsTerminalError(result)
        \/ IsMinimalError(result)

\* the iterations whose persist step has finished
Completed == Cardinality({k \in 1..Len(log) : log[k][1] = "persist"})

\* C3: wherever the run is killed, the output file holds the results of
\* every iteration that completed before.
C3_KilledRunKeepsCompletedRows ==
    pc = "killed" =>
        /\ Len(outfile.rows) >= Completed
        /\ SubSeq(outfile.rows, 1, Completed) = SubSeq(results, 1, Completed)

\* C4: a failed call gives the dict with only company_name and error, no
\* extraction step is taken for that record (the analysis returns at once),
\* the run raises nothing, and when it ends every selected record has been
\* called for and has its result in the output file.
C4_CallFailureIsolated ==
    /\ \A k \in 1..Len(calls) :
          IsFailure(calls[k]) =>
             /\ \A ev \in {log[j] : j \in 1..Len(log)} :
                    ~(ev[1] = "extract" /\ ev[2] = k - 1)
             /\ Len(results) >= k =>
                    /\ DOMAIN results[k] = {"company_name", "error"}
                    /\ results[k]["company_name"] = calls[k].request.name
                    /\ results[k]["error"] = calls[k].outcome[2]
             /\ pc # "raised" /\ error = "none"
             /\ (k = Len(calls) /\ Len(results) < k) => pc \in {"return", "killed"}
    /\ pc = "done" =>
          /\ Len(results) = Cardinality(Selected)
          /\ Len(calls) = Cardinality(Selected)
          /\ Len(results) > 0 => outfile = [exists |-> TRUE, rows |-> results]

\* a finished run of three records whose first call failed and whose later
\* calls were answered, all of it in the output file
C4_Witness ==
    /\ pc = "done"
    /\ Len(results) = 3
    /\ IsFailure(calls[1])
    /\ IsReply(calls[2])
    /\ IsReply(calls[3])
    /\ IsMinimalError(results[1])
    /\ outfile.rows = results

\* C5: with a required column missing the run raises before it starts: no
\* record is selected or processed, the Model Client is never called, the
\* output directory and file are left as they were.
C5_MissingColumnStopsRun ==
    ({"name", "phone_number", "city", "state"} \ columns) # {} =>
        /\ pc \in {"start", "raised", "killed"}
        /\ pc = "raised" => error = "ValueError: Missing required columns"
        /\ calls = <<>>
        /\ log = <<>>
        /\ results = <<>>
        /\ companies = <<>>
        /\ outdir = FALSE
        /\ outfile = prior

\* the run has raised on a table of rows that lacks only the state column
C5_Witness ==
    /\ pc = "raised"
    /\ columns = {"name", "phone_number", "city"}
    /\ nrows > 0
    /\ prior = StaleFile

\* whether reply is a json fence, an inner text and a closing fence, the
\* inner text being a JSON object
IsFencedObject(reply) ==
    /\ Len(reply) >= Len(JSON_FENCE) + Len(FENCE)
    /\ StartsWith(reply, JSON_FENCE)
    /\ MatchAt(reply, Len(reply) - 2, FENCE)
    /\ LET inner == json_loads(SubSeq(reply, Len(JSON_FENCE) + 1, Len(reply) - 3))
       IN  inner.ok /\ inner.val.t = "object"

InnerValue(reply) ==
    json_loads(SubSeq(reply, Len(JSON_FENCE) + 1, Len(reply) - 3)).val

\* C6: for a reply that is exactly a fenced JSON object, the result is the
\* inner text parsed, whatever the strings of the object hold.
C6_FencedRoundTrip ==
    (Returned /\ IsReply(LastCall) /\ IsFencedObject(LastCall.outcome[2])) =>
        /\ IsParsed(result)
        /\ result = InnerValue(LastCall.outcome[2])

C8_TerminalErrorVariant ==
    (Returned /\ IsReply(LastCall)) =>
        LET reply == LastCall.outcome[2]
            first == json_loads(extract_json_from_text(reply))
        IN  (~first.ok /\ ~json_loads(Remainder(reply)).ok) =>
              /\ DOMAIN result = TerminalKeys
              /\ result["company_name"] = companies[i + 1]["name"]
              /\ result["has_website"] = FALSE
              /\ result["needs_website_remake"] = FALSE
              /\ result["website_url"] = ""
              /\ result["business_type"] = ""
              /\ result["social_media_links"] = <<>>
              /\ result["directory_listings"] = <<>>
              /\ result["recommended_services"] = <<>>
              /\ result["website_notes"] = "Error parsing response"
              /\ result["sales_script"] = "Error parsing response"
              /\ result["_error"] = <<first.msg, first.pos>>
              /\ result["_error"][1] # ""
              /\ Len(result["_raw_response"]) =
                    (IF Len(reply) < 500 THEN Len(reply) ELSE 500)
              /\ \A k \in 1..Len(result["_raw_response"]) :
                    result["_raw_response"][k] = reply[k]

\* an error dict for a reply longer than 500 characters
C8_Witness ==
    /\ Returned
    /\ IsReply(LastCall)
    /\ IsTerminalError(result)
    /\ Len(LastCall.outcome[2]) > 500
    /\ Len(result["_raw_response"]) = 500

RECURSIVE ExpectedLog(_, _)
\* the steps of iterations k..n-1 in the order C9 gives them
ExpectedLog(k, n) ==
    IF k >= n THEN <<>>
    ELSE <<<<"build", k>>, <<"call", k>>>>
         \o (IF IsReply(calls[k + 1]) THEN <<<<"extract", k>>>> ELSE <<>>)
         \o <<<<"append", k>>, <<"persist", k>>>>
         \o (IF k # n - 1 THEN <<<<"pause", k>>>> ELSE <<>>)
         \o ExpectedLog(k + 1, n)

\* C9: a finished run took, record by record, the steps build, call,
\* extract, append, persist, and paused after the persist of every record
\* but the last: n persists and n-1 pauses over n >= 1 records.
C9_StepOrderAndPauses ==
    (pc = "done" /\ Len(companies) >= 1) =>
        /\ Len(calls) = Len(companies)
        /\ log = ExpectedLog(0, Len(companies))
        /\ Cardinality({k \in 1..Len(log) : log[k][1] = "persist"})
              = Len(companies)
        /\ Cardinality({k \in 1..Len(log) : log[k][1] = "pause"})
              = Len(companies) - 1
        /\ log[Len(log)][1] = "persist"

\* a finished run over three records
C9_Witness ==
    /\ pc = "done"
    /\ Len(companies) = 3
    /\ Cardinality({k \in 1..Len(log) : log[k][1] = "pause"}) = 2

\* the calls made for iteration k (0-based)
CallsFor(k) ==
    Cardinality({j \in 1..Len(log) : log[j] = <<"call", k>>})

\* C10: the Model Client is called once per selected record whatever the
\* outcome: never twice for a record, once for every record whose analysis
\* has returned, and once for each when the run ends.
C10_OneCallPerRecord ==
    /\ \A k \in 0..MaxRows : CallsFor(k) <= 1
    /\ Len(calls) = Cardinality({j \in 1..Len(log) : log[j][1] = "call"})
    /\ \A k \in 1..Len(results) : CallsFor(k - 1) = 1
    /\ pc = "return" => CallsFor(i) = 1
    /\ pc = "done" =>
          /\ Len(calls) = Cardinality(Selected)
          /\ \A k \in 1..Len(calls) :
                calls[k].request.name = NameOfRow(start_index + k)

\* a finished run whose three records ended in a parsed reply, an error
\* dict after both parses failed, and a failed call
C10_Witness ==
    /\ pc = "done"
    /\ Len(calls) = 3
    /\ \E a, b, c \in 1..3 :
          /\ IsParsed(results[a])
          /\ IsTerminalError(results[b])
          /\ IsMinimalError(results[c])

=============================================================================
